---- MODULE Spec2Model ----
(***************************************************************************)
(* A model of pyshortcuts/darwin.py: make_shortcut builds an application   *)
(* bundle on the Desktop.  Text (commands, literals, identifiers) is a     *)
(* sequence of one-character strings; a filesystem path is a sequence of   *)
(* path components; the filesystem is a function from the existing paths   *)
(* to their entries.                                                       *)
(***************************************************************************)
EXTENDS Integers, Sequences, FiniteSets, TLC

VARIABLES
  fs,      \* the filesystem: existing path |-> [kind, mode, data]
  call,    \* the arguments and environment of the last make_shortcut call
  result,  \* what the last call returned or raised
  procs,   \* the external processes the last call ran
  frame,   \* local variables of the last call (executable, full_script, cmd, dest)
  pc,      \* concurrent builds: each build's position in make_shortcut
  th       \* concurrent builds: each build's arguments and local variables

vars == <<fs, call, result, procs, frame, pc, th>>

(***************************************************************************)
(* Text                                                                    *)
(***************************************************************************)

\* The printable ASCII characters, in code order from 32 (str.encode());
\* "grave" stands for the backquote, which a TLA+ string cannot hold.
Ascii ==
  <<" ", "!", "\"", "#", "$", "%", "&", "'", "(", ")", "*", "+", ",", "-", ".", "/",
    "0", "1", "2", "3", "4", "5", "6", "7", "8", "9", ":", ";", "<", "=", ">", "?",
    "@", "A", "B", "C", "D", "E", "F", "G", "H", "I", "J", "K", "L", "M", "N", "O",
    "P", "Q", "R", "S", "T", "U", "V", "W", "X", "Y", "Z", "[", "\\", "]", "^", "_",
    "grave", "a", "b", "c", "d", "e", "f", "g", "h", "i", "j", "k", "l", "m", "n", "o",
    "p", "q", "r", "s", "t", "u", "v", "w", "x", "y", "z", "{", "|", "}", "~">>

Ord(c) == 31 + (CHOOSE i \in 1..Len(Ascii) : Ascii[i] = c)

encode(s) == [i \in 1..Len(s) |-> Ord(s[i])]

\* str.replace(old, new) for a one-character old.
RECURSIVE replace(_, _, _)
replace(s, old, new) ==
  IF s = <<>> THEN <<>>
  ELSE (IF Head(s) = old THEN new ELSE <<Head(s)>>) \o replace(Tail(s), old, new)

(***************************************************************************)
(* hashlib.md5 (RFC 1321).  A 32-bit word is <<hi, lo>>, two 16-bit        *)
(* halves, so that no sum leaves TLC's integers.                           *)
(***************************************************************************)

md5_K ==
  <<
    <<55146, 42104>>, <<59591, 46934>>, <<9248, 28891>>, <<49597, 52974>>,
    <<62844, 4015>>, <<18311, 50730>>, <<43056, 17939>>, <<64838, 38145>>,
    <<27008, 39128>>, <<35652, 63407>>, <<65535, 23473>>, <<35164, 55230>>,
    <<27536, 4386>>, <<64920, 29075>>, <<42617, 17294>>, <<18868, 2081>>,
    <<63006, 9570>>, <<49216, 45888>>, <<9822, 23121>>, <<59830, 51114>>,
    <<54831, 4189>>, <<580, 5203>>, <<55457, 59009>>, <<59347, 64456>>,
    <<8673, 52710>>, <<49975, 2006>>, <<62677, 3463>>, <<17754, 5357>>,
    <<43491, 59653>>, <<64751, 41976>>, <<26479, 729>>, <<36138, 19594>>,
    <<65530, 14658>>, <<34673, 63105>>, <<28061, 24866>>, <<64997, 14348>>,
    <<42174, 59972>>, <<19422, 53161>>, <<63163, 19296>>, <<48831, 48240>>,
    <<10395, 32454>>, <<60065, 10234>>, <<54511, 12421>>, <<1160, 7429>>,
    <<55764, 53305>>, <<59099, 39397>>, <<8098, 31992>>, <<50348, 22117>>,
    <<62505, 8772>>, <<17194, 65431>>, <<43924, 9127>>, <<64659, 41017>>,
    <<25947, 22979>>, <<36620, 52370>>, <<65519, 62589>>, <<34180, 24017>>,
    <<28584, 32335>>, <<65068, 59104>>, <<41729, 17172>>, <<19976, 4513>>,
    <<63315, 32386>>, <<48442, 62005>>, <<10967, 53947>>, <<60294, 54161>>
  >>

md5_S ==
  <<
    7, 12, 17, 22, 7, 12, 17, 22, 7, 12, 17, 22, 7, 12, 17, 22,
    5, 9, 14, 20, 5, 9, 14, 20, 5, 9, 14, 20, 5, 9, 14, 20,
    4, 11, 16, 23, 4, 11, 16, 23, 4, 11, 16, 23, 4, 11, 16, 23,
    6, 10, 15, 21, 6, 10, 15, 21, 6, 10, 15, 21, 6, 10, 15, 21
  >>

md5_init == << <<26437, 8961>>, <<61389, 43913>>, <<39098, 56574>>, <<4146, 21622>> >>

\* Bitwise on n-bit numbers: where a bit of x is set take y's bit, else z's.
RECURSIVE Mux(_, _, _, _)
Mux(n, x, y, z) ==
  IF n = 0 THEN 0
  ELSE (IF x % 2 = 1 THEN y % 2 ELSE z % 2)
       + 2 * Mux(n - 1, x \div 2, y \div 2, z \div 2)

RECURSIVE Xor(_, _, _)
Xor(n, x, y) ==
  IF n = 0 THEN 0
  ELSE ((x + y) % 2) + 2 * Xor(n - 1, x \div 2, y \div 2)

Not16(x) == 65535 - x

Add32(x, y) ==
  LET lo == x[2] + y[2]
      hi == x[1] + y[1] + (lo \div 65536)
  IN  <<hi % 65536, lo % 65536>>

\* Rotate a word left by s bits, 0 < s < 32.
Rotl32(x, s) ==
  LET w == IF s >= 16 THEN <<x[2], x[1]>> ELSE x
      r == s % 16
  IN  IF r = 0 THEN w
      ELSE <<((w[1] * (2 ^ r)) % 65536) + (w[2] \div (2 ^ (16 - r))),
             ((w[2] * (2 ^ r)) % 65536) + (w[1] \div (2 ^ (16 - r)))>>

\* The round function and the message index of step i (0..63).
md5_F(i, b, c, d) ==
  LET f(k) ==
        IF i < 16 THEN Mux(16, b[k], c[k], d[k])
        ELSE IF i < 32 THEN Mux(16, d[k], b[k], c[k])
        ELSE IF i < 48 THEN Xor(16, Xor(16, b[k], c[k]), d[k])
        ELSE Xor(16, c[k], Mux(16, Not16(d[k]), 65535, b[k]))
  IN  <<f(1), f(2)>>

md5_g(i) ==
  IF i < 16 THEN i
  ELSE IF i < 32 THEN (5 * i + 1) % 16
  ELSE IF i < 48 THEN (3 * i + 5) % 16
  ELSE (7 * i) % 16

\* Steps i .. n-1 on the block M (16 words, indexed from 1); v = <<a, b, c, d>>.
RECURSIVE md5_rounds(_, _, _, _)
md5_rounds(i, n, M, v) ==
  IF i = n THEN v
  ELSE LET F == Add32(Add32(Add32(md5_F(i, v[2], v[3], v[4]), v[1]), md5_K[i + 1]),
                      M[md5_g(i) + 1])
           w == <<v[4], Add32(v[2], Rotl32(F, md5_S[i + 1])), v[2], v[3]>>
       IN  \* the test makes TLC compute w before the next step, not after the last
           IF Len(w) = 4 THEN md5_rounds(i + 1, n, M, w) ELSE w

\* The 64 steps, eight at a time (this keeps the evaluation shallow).
RECURSIVE md5_steps(_, _, _)
md5_steps(i, M, v) ==
  IF i = 64 THEN v
  ELSE LET w == md5_rounds(i, i + 8, M, v)
       IN  IF Len(w) = 4 THEN md5_steps(i + 8, M, w) ELSE w

\* The message bytes, padded: 0x80, zeros to 56 mod 64, bit length (little-endian, 64 bits).
md5_pad(bytes) ==
  LET n     == Len(bytes)
      zeros == (119 - (n % 64)) % 64
      bits  == 8 * n
  IN  bytes \o <<128>> \o [i \in 1..zeros |-> 0]
      \o [i \in 1..8 |-> IF i <= 4 THEN (bits \div (256 ^ (i - 1))) % 256 ELSE 0]

md5_block(p, k) ==
  [j \in 1..16 |->
     LET o == 64 * k + 4 * (j - 1)
     IN  <<p[o + 3] + 256 * p[o + 4], p[o + 1] + 256 * p[o + 2]>>]

RECURSIVE md5_blocks(_, _, _)
md5_blocks(p, k, v) ==
  IF 64 * k >= Len(p) THEN v
  ELSE LET w == md5_steps(0, md5_block(p, k), v)
       IN  md5_blocks(p, k + 1, [j \in 1..4 |-> Add32(v[j], w[j])])

md5(bytes) == md5_blocks(md5_pad(bytes), 0, md5_init)

HexDigits == <<"0", "1", "2", "3", "4", "5", "6", "7", "8", "9", "a", "b", "c", "d", "e", "f">>

HexByte(b) == <<HexDigits[(b \div 16) + 1], HexDigits[(b % 16) + 1]>>

\* hexdigest() of one state word: its four bytes, low byte first.
HexWord(w) ==
  HexByte(w[2] % 256) \o HexByte(w[2] \div 256) \o HexByte(w[1] % 256) \o HexByte(w[1] \div 256)

\* hexdigest()[:8] of the MD5 digest of the text s
hexdigest8(s) == HexWord(md5(encode(s))[1])

(***************************************************************************)
(* The filesystem                                                          *)
(***************************************************************************)

\* A path component is <<stem, suffix>>, so that name + '.app' is a component.
C(s) == <<s, "">>

Ok(f) == [fs |-> f, err |-> "ok"]

Raise(f, exc) == [fs |-> f, err |-> exc]

\* Run the next operation unless an exception is already propagating.
Then(r, Op(_)) == IF r.err = "ok" THEN Op(r.fs) ELSE r

parent(p) == SubSeq(p, 1, Len(p) - 1)

IsPrefix(p, q) == Len(p) <= Len(q) /\ SubSeq(q, 1, Len(p)) = p

exists(f, p) == p \in DOMAIN f

is_dir(f, p) == exists(f, p) /\ f[p].kind = "dir"

Put(f, p, e) == (p :> e) @@ f

\* mode & ~umask, on the nine permission bits
Masked(mode, umask) == Mux(9, umask, 0, mode)

Dir(umask) == [kind |-> "dir", mode |-> Masked(511, umask), data |-> [doc |-> "dir"]]

\* os.mkdir(p)
mkdir(f, p, umask) ==
  IF exists(f, p) THEN Raise(f, "FileExistsError")
  ELSE IF ~exists(f, parent(p)) THEN Raise(f, "FileNotFoundError")
  ELSE IF ~is_dir(f, parent(p)) THEN Raise(f, "NotADirectoryError")
  ELSE Ok(Put(f, p, Dir(umask)))

\* os.makedirs(p): the missing ancestors first, then the leaf, which must not exist.
RECURSIVE makedirs(_, _, _)
makedirs(f, p, umask) ==
  IF p # <<>> /\ ~exists(f, parent(p))
  THEN Then(makedirs(f, parent(p), umask), LAMBDA g : mkdir(g, p, umask))
  ELSE mkdir(f, p, umask)

\* shutil.rmtree(p): p must be a directory; it goes with everything below it.
rmtree(f, p) ==
  IF ~exists(f, p) THEN Raise(f, "FileNotFoundError")
  ELSE IF ~is_dir(f, p) THEN Raise(f, "NotADirectoryError")
  ELSE Ok([q \in {x \in DOMAIN f : ~IsPrefix(p, x)} |-> f[q]])

\* with open(p, 'w') as fout: fout.write(data)
write(f, p, data, umask) ==
  IF ~exists(f, parent(p)) THEN Raise(f, "FileNotFoundError")
  ELSE IF ~is_dir(f, parent(p)) THEN Raise(f, "NotADirectoryError")
  ELSE IF is_dir(f, p) THEN Raise(f, "IsADirectoryError")
  ELSE Ok(Put(f, p, [kind |-> "file",
                     mode |-> IF exists(f, p) THEN f[p].mode ELSE Masked(438, umask),
                     data |-> data]))

\* os.chmod(p, mode)
chmod(f, p, mode) ==
  IF ~exists(f, p) THEN Raise(f, "FileNotFoundError")
  ELSE Ok(Put(f, p, [f[p] EXCEPT !.mode = mode]))

\* shutil.copy(src, dst): the contents and the permission bits of src.
copy(f, src, dst) ==
  IF ~exists(f, src) THEN Raise(f, "FileNotFoundError")
  ELSE IF is_dir(f, src) THEN Raise(f, "IsADirectoryError")
  ELSE LET r == write(f, dst, f[src].data, 0)
       IN  Then(r, LAMBDA g : chmod(g, dst, f[src].mode))

(***************************************************************************)
(* The collaborators of make_shortcut                                      *)
(***************************************************************************)

\* Python's None, for an optional text argument.
None == <<"None">>

get_homedir == <<C("Users"), C("u")>>

get_desktop == get_homedir \o <<C("Desktop")>>

\* The Python executable that makes the shortcut.
get_pyexe == <<"/", "p">>

\* Path(p).resolve() of an executable or script path: /l is a symbolic link to /p.
resolve(p) == IF p = <<"/", "l">> THEN <<"/", "p">> ELSE p

\* The icon that shortcut() resolves when the caller names none.
default_icon == <<C("icons"), <<"py", ".icns">>>>

\* The index of the first space of s, or 0.
find_space(s) == IF \E i \in 1..Len(s) : s[i] = " "
                 THEN CHOOSE i \in 1..Len(s) : s[i] = " " /\ \A j \in 1..(i - 1) : s[j] # " "
                 ELSE 0

\* shortcut(script, userfolders, name, description, working_dir, folder, icon):
\* the script path and its trailing arguments, the target <name>.app and the
\* Desktop folder it goes to.  The model always names the shortcut.
shortcut(a) ==
  LET k == find_space(a.script)
      path == IF k = 0 THEN a.script ELSE SubSeq(a.script, 1, k - 1)
      args == IF k = 0 THEN <<>> ELSE SubSeq(a.script, k + 1, Len(a.script))
  IN  [name        |-> a.name,
       description |-> IF a.description = None THEN <<a.name>> ELSE a.description,
       icon        |-> IF a.icon = None THEN default_icon ELSE a.icon,
       target      |-> <<a.name, ".app">>,
       working_dir |-> IF a.working_dir = None THEN <<>> ELSE a.working_dir,
       script      |-> path,
       full_script |-> path,
       arguments   |-> args,
       desktop_dir |-> IF a.folder = None THEN get_desktop
                       ELSE get_desktop \o <<C(a.folder[1])>>]

(***************************************************************************)
(* make_shortcut, step by step                                             *)
(***************************************************************************)

\* if noexe: ... else: ...  The script and the executable the command is made of.
assemble_noclear(a, scut) ==
  LET given == IF a.executable = None THEN get_pyexe ELSE a.executable
      exe   == resolve(given)
  IN  [full_script |-> IF a.noexe THEN scut.script ELSE scut.full_script,
       executable  |-> IF resolve(scut.full_script) = resolve(exe) THEN <<>> ELSE exe]

assemble(a, scut) ==
  IF a.noexe
  THEN [full_script |-> scut.script, executable |-> <<>>]
  ELSE LET given == IF a.executable = None THEN get_pyexe ELSE a.executable
           exe   == resolve(given)
       IN  [full_script |-> scut.full_script,
            executable  |-> IF resolve(scut.full_script) = resolve(exe) THEN <<>> ELSE exe]

\* Build command string
build_cmd(executable, full_script, arguments) ==
  IF executable # <<>>
  THEN executable \o <<" ">> \o full_script \o <<" ">> \o arguments
  ELSE full_script \o <<" ">> \o arguments

(***************************************************************************)
(* The calls of the model                                                  *)
(***************************************************************************)

\* The longest argument text of the quoting calls.
MaxArgLen == 3

Outcomes == {"ok", "nonzero", "raise"}

\* The file-creation masks a process may run under: 0o022 and 0o077.
Umasks == {18, 63}

DefaultEnv == [umask |-> 18, xattr |-> "ok", codesign |-> "ok"]

Args(scripts, names, folders, terminals, desktops, executables, noexes) ==
  [script : scripts, name : names, folder : folders, terminal : terminals,
   desktop : desktops, executable : executables, noexe : noexes,
   description : {None}, icon : {None}, working_dir : {None}]

\* Every text of 1..n characters of the set chars.
RECURSIVE Texts(_, _)
Texts(chars, n) ==
  IF n = 0 THEN {}
  ELSE {<<c>> : c \in chars}
       \cup {<<c>> \o t : c \in chars, t \in Texts(chars, n - 1)}

\* Rebuilding: either strategy, on the Desktop or in its subfolder F.
Scripts == {<<"/", "s">>, <<"/", "s", " ", "-", "v">>}

Calls == Args(Scripts, {"A"}, {None, <<"F">>}, BOOLEAN, BOOLEAN, {None}, {FALSE})

Envs == [umask : Umasks, xattr : {"ok"}, codesign : {"ok"}]

\* Post-processing: every outcome of the two external tools.
PostCalls == Args({<<"/", "s">>}, {"A"}, {None}, BOOLEAN, {TRUE}, {None}, {FALSE})

PostEnvs == [umask : Umasks, xattr : Outcomes, codesign : Outcomes]

\* Command assembly: the script is /s, the executable /p itself or the link /l
\* to it; the executable is the default, /l, /s or /e.
AsmScripts ==
  {path \o args : path \in {<<"/", "s">>, <<"/", "p">>, <<"/", "l">>},
                  args \in {<<>>, <<" ", "a">>, <<" ", "a", " ", "b">>}}

AsmCalls ==
  Args(AsmScripts, {"A"}, {None}, {TRUE}, {TRUE},
       {None, <<"/", "l">>, <<"/", "s">>, <<"/", "e">>}, BOOLEAN)

\* Quoting: arguments of quotes, backslashes and letters.
QuoteScripts == {<<"/", "s", " ">> \o t : t \in Texts({"a", "\"", "\\"}, MaxArgLen)}

QuoteCalls == Args(QuoteScripts, {"A"}, {None}, {TRUE}, {TRUE}, {None}, {FALSE})

CmdCalls == AsmCalls \cup QuoteCalls

\* Identity: GUI builds of one name in two folders.
IdScripts ==
  {<<"/", "s">>, <<"/", "s", " ", "-", "x", " ", "1">>,
   <<"/", "s", " ", "-", "x", " ", "2", "0", "5", "9">>,
   <<"/", "s", " ", "-", "x", " ", "1", "7", "4", "1", "8">>}

IdCalls == Args(IdScripts, {"A"}, {None, <<"F">>}, {FALSE}, {TRUE}, {None}, BOOLEAN)

\* Two builds at once: two names, on the Desktop or in its subfolder F.
ConcCalls == Args({<<"/", "s">>}, {"A", "B"}, {None, <<"F">>}, BOOLEAN, {TRUE}, {None}, {FALSE})

\* The digests of the commands the GUI calls of the model assemble, computed once.
GuiCommands ==
  {build_cmd(assemble(a, shortcut(a)).executable, assemble(a, shortcut(a)).full_script,
             shortcut(a).arguments) :
     a \in {c \in Calls \cup PostCalls \cup CmdCalls \cup IdCalls \cup ConcCalls : ~c.terminal}}

Digests == {<<c, hexdigest8(c)>> : c \in GuiCommands}

\* hashlib.md5(cmd.encode()).hexdigest()[:8]
md5_hexdigest8(cmd) ==
  IF \E p \in Digests : p[1] = cmd
  THEN (CHOOSE p \in Digests : p[1] = cmd)[2]
  ELSE hexdigest8(cmd)

\* if not Path(scut.desktop_dir).exists(): os.makedirs(scut.desktop_dir)
ensure_desktop_dir(f, scut, umask) ==
  IF ~exists(f, scut.desktop_dir) THEN makedirs(f, scut.desktop_dir, umask) ELSE Ok(f)

dest_of(scut) == scut.desktop_dir \o <<scut.target>>

Contents(dest) == dest \o <<C("Contents")>>

MacOS(dest) == dest \o <<C("Contents"), C("MacOS")>>

Resources(dest) == dest \o <<C("Contents"), C("Resources")>>

\* A skeleton that keeps what is there and adds the directories that are missing.
skeleton_keep(f, dest, umask) ==
  LET ensure(g, p) == IF exists(g, p) THEN Ok(g) ELSE mkdir(g, p, umask)
  IN  Then(Then(Then(ensure(f, dest),
                     LAMBDA g : ensure(g, Contents(dest))),
                LAMBDA g : ensure(g, MacOS(dest))),
           LAMBDA g : ensure(g, Resources(dest)))

\* if Path(dest).exists(): shutil.rmtree(dest); then the four os.mkdir calls
skeleton(f, dest, umask) ==
  Then(Then(Then(Then(IF exists(f, dest) THEN rmtree(f, dest) ELSE Ok(f),
                      LAMBDA g : mkdir(g, dest, umask)),
                 LAMBDA g : mkdir(g, Contents(dest), umask)),
            LAMBDA g : mkdir(g, MacOS(dest), umask)),
       LAMBDA g : mkdir(g, Resources(dest), umask))

\* The documents written into the bundle, by the values they embed.
workflow(cmd) == [doc |-> "workflow", COMMAND_STRING |-> cmd]

\* An identity made from the script alone, without its arguments.
bundle_id_base_script(scut, cmd) == <<scut.name>> \o <<"-">> \o md5_hexdigest8(scut.full_script)

\* bundle_id_base = f"{scut.name}-{hashlib.md5(cmd.encode()).hexdigest()[:8]}"
bundle_id_base(scut, cmd) == <<scut.name>> \o <<"-">> \o md5_hexdigest8(cmd)

CFBundleIdentifier(scut, cmd) ==
  <<"c", "o", "m", ".", "p", "y", "s", "h", "o", "r", "t", "c", "u", "t", "s", ".">>
  \o bundle_id_base(scut, cmd)

info_automator(scut, cmd) ==
  [doc |-> "info_automator", CFBundleExecutable |-> "Application Stub",
   CFBundleIconFile |-> scut.name, CFBundleName |-> scut.name,
   CFBundleIdentifier |-> CFBundleIdentifier(scut, cmd)]

info(scut) ==
  [doc |-> "info", CFBundleGetInfoString |-> scut.description,
   CFBundleName |-> scut.name, CFBundleExecutable |-> scut.name,
   CFBundleIconFile |-> scut.name]

automator_stub_paths ==
  << <<C("System"), C("Library"), C("CoreServices"),
       <<"Automator Application Stub", ".app">>, C("Contents"), C("MacOS"),
       C("Automator Application Stub")>>,
     <<C("System"), C("Library"), C("CoreServices"),
       <<"Automator Launcher", ".app">>, C("Contents"), C("MacOS"),
       C("Automator Launcher")>> >>

stub_found(f) == \E i \in 1..Len(automator_stub_paths) : exists(f, automator_stub_paths[i])

\* for stub_path in automator_stub_paths: the first that exists
automator_stub(f) ==
  automator_stub_paths[CHOOSE i \in 1..Len(automator_stub_paths) :
      /\ exists(f, automator_stub_paths[i])
      /\ \A j \in 1..(i - 1) : ~exists(f, automator_stub_paths[j])]

MissingStub == "FileNotFoundError: Could not find Automator Application Stub. Please use terminal=True."

stub_dest(dest) == MacOS(dest) \o <<C("Application Stub")>>

icon_dest(scut, dest) == Resources(dest) \o <<<<scut.name, ".icns">>>>

info_plist(dest) == Contents(dest) \o <<<<"Info", ".plist">>>>

workflow_path(dest) == Resources(dest) \o <<<<"document", ".wflow">>>>

ascript_name(scut, dest) == MacOS(dest) \o <<C(scut.name)>>

\* if not terminal: the workflow, the Info.plist, the stub, the icon
gui_strategy(f, scut, dest, cmd, umask) ==
  Then(Then(Then(write(f, workflow_path(dest), workflow(cmd), umask),
                 LAMBDA g : write(g, info_plist(dest), info_automator(scut, cmd), umask)),
            LAMBDA g : IF ~stub_found(g) THEN Raise(g, MissingStub)
                       ELSE copy(g, automator_stub(g), stub_dest(dest))),
       LAMBDA g : copy(g, scut.icon, icon_dest(scut, dest)))

\* cmd_escaped = cmd.replace('"', '\\"')
cmd_escaped(cmd) == replace(cmd, "\"", <<"\\", "\"">>)

\* The launcher script, by the literal of its line:  do script "<cmd_escaped>"
ascript(cmd) == [doc |-> "osascript", do_script |-> <<"\"">> \o cmd_escaped(cmd) \o <<"\"">>]

\* A Terminal strategy that leaves the launcher with the mode open() gave it.
terminal_strategy_nochmod(f, scut, dest, cmd, umask) ==
  Then(Then(write(f, info_plist(dest), info(scut), umask),
            LAMBDA g : write(g, ascript_name(scut, dest), ascript(cmd), umask)),
       LAMBDA g : copy(g, scut.icon, icon_dest(scut, dest)))

\* else: the Info.plist, the launcher script made executable (0o755), the icon
terminal_strategy(f, scut, dest, cmd, umask) ==
  Then(Then(Then(write(f, info_plist(dest), info(scut), umask),
                 LAMBDA g : write(g, ascript_name(scut, dest), ascript(cmd), umask)),
            LAMBDA g : chmod(g, ascript_name(scut, dest), 493)),
       LAMBDA g : copy(g, scut.icon, icon_dest(scut, dest)))

\* What a run of codesign --force --deep --sign - dest leaves in the bundle.
signed(f, dest) ==
  IF ~is_dir(f, Contents(dest)) THEN f
  ELSE Put(Put(f, Contents(dest) \o <<C("_CodeSignature")>>, Dir(18)),
           Contents(dest) \o <<C("_CodeSignature"), C("CodeResources")>>,
           [kind |-> "file", mode |-> 420, data |-> [doc |-> "CodeResources"]])

Ran(tool, dest, outcome) == [tool |-> tool, target |-> dest, outcome |-> outcome]

\* A post-processing where an exception of subprocess.run is not caught.
post_process_uncaught(f, dest, terminal, e) ==
  IF e.xattr = "raise"
  THEN [fs |-> f, err |-> "FileNotFoundError", procs |-> <<Ran("xattr", dest, e.xattr)>>]
  ELSE IF terminal
  THEN [fs |-> f, err |-> "ok", procs |-> <<Ran("xattr", dest, e.xattr)>>]
  ELSE IF e.codesign = "raise"
  THEN [fs |-> f, err |-> "FileNotFoundError",
        procs |-> <<Ran("xattr", dest, e.xattr), Ran("codesign", dest, e.codesign)>>]
  ELSE [fs |-> IF e.codesign = "ok" THEN signed(f, dest) ELSE f, err |-> "ok",
        procs |-> <<Ran("xattr", dest, e.xattr), Ran("codesign", dest, e.codesign)>>]

\* try: subprocess.run(['xattr', ...]) except Exception: pass
\* if not terminal: try: subprocess.run(['codesign', ...]) except Exception: pass
\* An outcome is "ok", "nonzero" (check=False lets it pass) or "raise" (caught).
post_process(f, dest, terminal, e) ==
  IF terminal
  THEN [fs |-> f, err |-> "ok", procs |-> <<Ran("xattr", dest, e.xattr)>>]
  ELSE [fs |-> IF e.codesign = "ok" THEN signed(f, dest) ELSE f, err |-> "ok",
        procs |-> <<Ran("xattr", dest, e.xattr), Ran("codesign", dest, e.codesign)>>]

\* The entries at and below dest, by their paths from dest.
Under(f, dest) == {SubSeq(p, Len(dest) + 1, Len(p)) : p \in {q \in DOMAIN f : IsPrefix(dest, q)}}

\* What a call leaves behind for inspection: its local variables, what lay at
\* dest when it began (before), what the skeleton step left there (skeleton)
\* and whether the launch strategy's artifacts were all written (built).
NoFrame ==
  [executable |-> None, full_script |-> None, cmd |-> None, dest |-> <<>>,
   before |-> {}, skeleton |-> [err |-> "not reached", paths |-> {}], built |-> FALSE]

Returned(f, scut, ps, fr) ==
  [fs |-> f, result |-> [ret |-> "scut", exc |-> "", scut |-> scut], procs |-> ps, frame |-> fr]

Raised(f, exc, fr) ==
  [fs |-> f, result |-> [ret |-> "raise", exc |-> exc, scut |-> None], procs |-> <<>>,
   frame |-> fr]

\* The values make_shortcut computes before it touches the filesystem: scut,
\* the executable and the script, dest and cmd.
locals(a) ==
  LET scut == shortcut(a)
      asm  == assemble(a, scut)
  IN  [scut |-> scut, executable |-> asm.executable, full_script |-> asm.full_script,
       dest |-> dest_of(scut),
       cmd |-> build_cmd(asm.executable, asm.full_script, scut.arguments)]

\* The Desktop folder, the skeleton, then the artifacts of the strategy; an
\* exception ends the sequence where it is raised.
construct(a, e, f, v) ==
  LET r1 == ensure_desktop_dir(f, v.scut, e.umask)
      r2 == Then(r1, LAMBDA g : skeleton(g, v.dest, e.umask))
      r3 == Then(r2, LAMBDA g : IF ~a.terminal
                                  THEN gui_strategy(g, v.scut, v.dest, v.cmd, e.umask)
                                  ELSE terminal_strategy(g, v.scut, v.dest, v.cmd, e.umask))
  IN  [dir |-> r1, skeleton |-> r2, strategy |-> r3]

\* The post-processing of a built bundle and `return scut`, or the exception.
finish(a, e, f, v, c) ==
  LET fr == [executable |-> v.executable, full_script |-> v.full_script,
             cmd |-> v.cmd, dest |-> v.dest, before |-> Under(f, v.dest),
             skeleton |-> IF c.dir.err = "ok"
                          THEN [err |-> c.skeleton.err, paths |-> Under(c.skeleton.fs, v.dest)]
                          ELSE [err |-> "not reached", paths |-> {}],
             built |-> c.strategy.err = "ok"]
  IN  IF c.strategy.err # "ok" THEN Raised(c.strategy.fs, c.strategy.err, fr)
      ELSE LET r4 == post_process(c.strategy.fs, v.dest, a.terminal, e)
           IN  IF r4.err # "ok" THEN Raised(r4.fs, r4.err, fr)
               ELSE Returned(r4.fs, v.scut, r4.procs, fr)

build_from(a, e, f, v) == finish(a, e, f, v, construct(a, e, f, v))

\* make_shortcut from userfolders = get_folders() to return scut
build(a, e, f) == build_from(a, e, f, locals(a))

\* A make_shortcut that builds the shortcut whatever desktop says.
make_shortcut_anyway(a, e, f) == build(a, e, f)

\* if not desktop: return None
make_shortcut(a, e, f) ==
  IF ~a.desktop
  THEN [fs |-> f, result |-> [ret |-> "None", exc |-> "", scut |-> None], procs |-> <<>>,
        frame |-> NoFrame]
  ELSE build(a, e, f)

(***************************************************************************)
(* The states make_shortcut starts from                                    *)
(***************************************************************************)

Ancestors(p) == {SubSeq(p, 1, k) : k \in 0..(Len(p) - 1)}

\* A filesystem holding the entries of the function `entries` and a directory
\* for each of dirs and for every ancestor of an entry.
MkFs(dirs, entries) ==
  LET named == dirs \cup DOMAIN entries
      all   == named \cup UNION {Ancestors(p) : p \in named}
  IN  [p \in all |-> IF p \in DOMAIN entries THEN entries[p] ELSE Dir(18)]

File(mode, data) == [kind |-> "file", mode |-> mode, data |-> data]

Entries(paths, e) == [p \in paths |-> e]

Merge(f, g) == f @@ g

DestA == get_desktop \o <<<<"A", ".app">>>>

\* What may lie at Desktop/A.app before the first call: nothing, the tree of an
\* older bundle with files of its own, or a regular file.
OldTree ==
  Merge(Entries({MacOS(DestA) \o <<C("A")>>, Contents(DestA) \o <<<<"old", ".txt">>>>},
                File(420, [doc |-> "old"])),
        Entries({DestA \o <<C("junk")>>}, Dir(18)))

Before ==
  [absent |-> Entries({}, Dir(18)), tree |-> OldTree,
   file |-> Entries({DestA}, File(420, [doc |-> "old"]))]

InitFs(stubs, before) ==
  MkFs({get_desktop},
       Merge(Merge(Entries({default_icon}, File(420, [doc |-> "icon"])),
                   Entries({automator_stub_paths[i] : i \in stubs},
                           File(493, [doc |-> "stub"]))),
             Before[before]))

Procs == {1, 2}

Idle ==
  /\ pc = [p \in Procs |-> "idle"]
  /\ th = [p \in Procs |-> <<>>]

\* No call yet; the process runs under the mask umask.
NoCall(umask) ==
  /\ call = [args |-> <<>>, env |-> [DefaultEnv EXCEPT !.umask = umask]]
  /\ result = [ret |-> "init", exc |-> "", scut |-> None]
  /\ procs = <<>>
  /\ frame = NoFrame

(***************************************************************************)
(* Builds one after the other                                              *)
(***************************************************************************)

Init ==
  /\ \E stubs \in SUBSET {1, 2}, before \in {"absent", "tree", "file"} :
       fs = InitFs(stubs, before)
  /\ \E umask \in Umasks : NoCall(umask)
  /\ Idle

\* One call of make_shortcut, from its first line to its return or exception.
MakeShortcut(a, e) ==
  LET r == make_shortcut(a, e, fs)
  IN  /\ e.umask = call.env.umask
      /\ call' = [args |-> a, env |-> e]
      /\ fs' = r.fs
      /\ result' = r.result
      /\ procs' = r.procs
      /\ frame' = r.frame
      /\ UNCHANGED <<pc, th>>

Next == \E a \in Calls, e \in Envs : MakeShortcut(a, e)

Spec == Init /\ [][Next]_vars

\* Builds with every outcome of the external tools.
NextPost == \E a \in PostCalls, e \in PostEnvs : MakeShortcut(a, e)

SpecPost == Init /\ [][NextPost]_vars

\* Builds on a host that has the stubs and nothing at the destination.
InitHost ==
  /\ fs = InitFs({1, 2}, "absent")
  /\ NoCall(DefaultEnv.umask)
  /\ Idle

NextCmd == \E a \in CmdCalls : MakeShortcut(a, DefaultEnv)

SpecCmd == InitHost /\ [][NextCmd]_vars

NextId == \E a \in IdCalls : MakeShortcut(a, DefaultEnv)

SpecId == InitHost /\ [][NextId]_vars

(***************************************************************************)
(* Two builds at once.  Each build goes through make_shortcut one          *)
(* filesystem call (or one run of calls on its own bundle) at a time.      *)
(***************************************************************************)

Scut(p) == shortcut(th[p].args)

Dest(p) == dest_of(Scut(p))

Cmd(p) ==
  build_cmd(assemble(th[p].args, Scut(p)).executable,
            assemble(th[p].args, Scut(p)).full_script, Scut(p).arguments)

InitConc ==
  /\ fs = InitFs({1, 2}, "absent")
  /\ NoCall(DefaultEnv.umask)
  /\ pc = [p \in Procs |-> "check_dir"]
  /\ \E a1, a2 \in ConcCalls : th = [p \in Procs |-> [args |-> IF p = 1 THEN a1 ELSE a2, err |-> ""]]

Goto(p, label) == pc' = [pc EXCEPT ![p] = label]

\* The step ends with the filesystem of r, at label next, or with r's exception.
Step(p, r, next) ==
  /\ fs' = r.fs
  /\ IF r.err = "ok"
     THEN Goto(p, next) /\ UNCHANGED th
     ELSE Goto(p, "failed") /\ th' = [th EXCEPT ![p].err = r.err]
  /\ UNCHANGED <<call, result, procs, frame>>

\* if not Path(scut.desktop_dir).exists():
CheckDir(p) ==
  /\ pc[p] = "check_dir"
  /\ Goto(p, IF exists(fs, Scut(p).desktop_dir) THEN "check_dest" ELSE "makedirs")
  /\ UNCHANGED <<fs, call, result, procs, frame, th>>

\* os.makedirs(scut.desktop_dir)
MakeDirs(p) ==
  /\ pc[p] = "makedirs"
  /\ Step(p, makedirs(fs, Scut(p).desktop_dir, DefaultEnv.umask), "check_dest")

\* if Path(dest).exists():
CheckDest(p) ==
  /\ pc[p] = "check_dest"
  /\ Goto(p, IF exists(fs, Dest(p)) THEN "rmtree" ELSE "mkdir_dest")
  /\ UNCHANGED <<fs, call, result, procs, frame, th>>

\* shutil.rmtree(dest)
RmTree(p) ==
  /\ pc[p] = "rmtree"
  /\ Step(p, rmtree(fs, Dest(p)), "mkdir_dest")

\* os.mkdir(dest), os.mkdir(Path(dest, 'Contents')), ... one at a time
MkDir(p) ==
  \/ /\ pc[p] = "mkdir_dest"
     /\ Step(p, mkdir(fs, Dest(p), DefaultEnv.umask), "mkdir_contents")
  \/ /\ pc[p] = "mkdir_contents"
     /\ Step(p, mkdir(fs, Contents(Dest(p)), DefaultEnv.umask), "mkdir_macos")
  \/ /\ pc[p] = "mkdir_macos"
     /\ Step(p, mkdir(fs, MacOS(Dest(p)), DefaultEnv.umask), "mkdir_resources")
  \/ /\ pc[p] = "mkdir_resources"
     /\ Step(p, mkdir(fs, Resources(Dest(p)), DefaultEnv.umask), "strategy")

\* if not terminal: ... else: ...  the artifacts of the launch strategy
Strategy(p) ==
  /\ pc[p] = "strategy"
  /\ Step(p, IF ~th[p].args.terminal
             THEN gui_strategy(fs, Scut(p), Dest(p), Cmd(p), DefaultEnv.umask)
             ELSE terminal_strategy(fs, Scut(p), Dest(p), Cmd(p), DefaultEnv.umask),
          "post")

\* the xattr and codesign runs, then return scut
Post(p) ==
  /\ pc[p] = "post"
  /\ Step(p, post_process(fs, Dest(p), th[p].args.terminal, DefaultEnv), "done")

NextConc ==
  \E p \in Procs :
    \/ CheckDir(p)
    \/ MakeDirs(p)
    \/ CheckDest(p)
    \/ RmTree(p)
    \/ MkDir(p)
    \/ Strategy(p)
    \/ Post(p)

SpecConc == InitConc /\ [][NextConc]_vars

(***************************************************************************)
(* The script host reading a double-quoted literal                         *)
(***************************************************************************)

\* The text of the literal s (after its opening quote): \" is a quote, \\ a
\* backslash, any other character itself; the first bare quote ends it.
\* closed: a quote ended the literal; rest: what follows that quote.
RECURSIVE scan(_, _)
scan(s, acc) ==
  IF s = <<>> THEN [closed |-> FALSE, value |-> acc, rest |-> <<>>]
  ELSE IF Head(s) = "\"" THEN [closed |-> TRUE, value |-> acc, rest |-> Tail(s)]
  ELSE IF Head(s) = "\\" /\ Len(s) >= 2 /\ s[2] \in {"\"", "\\"}
       THEN scan(SubSeq(s, 3, Len(s)), Append(acc, s[2]))
  ELSE scan(Tail(s), Append(acc, Head(s)))

parse_literal(lit) ==
  IF lit = <<>> \/ Head(lit) # "\"" THEN [closed |-> FALSE, value |-> <<>>, rest |-> lit]
  ELSE scan(Tail(lit), <<>>)

(***************************************************************************)
(* Properties                                                              *)
(***************************************************************************)

Called == result.ret # "init"

Returns == result.ret = "scut"

Contains(s, c) == \E i \in 1..Len(s) : s[i] = c

\* The paths from dest that a call of the given strategy writes.
Skeleton4 == {<<>>, <<C("Contents")>>, <<C("Contents"), C("MacOS")>>,
              <<C("Contents"), C("Resources")>>}

TerminalPaths(name) ==
  Skeleton4 \cup {<<C("Contents"), <<"Info", ".plist">>>>,
                  <<C("Contents"), C("MacOS"), C(name)>>,
                  <<C("Contents"), C("Resources"), <<name, ".icns">>>>}

GuiPaths(name) ==
  Skeleton4 \cup {<<C("Contents"), <<"Info", ".plist">>>>,
                  <<C("Contents"), C("Resources"), <<"document", ".wflow">>>>,
                  <<C("Contents"), C("MacOS"), C("Application Stub")>>,
                  <<C("Contents"), C("Resources"), <<name, ".icns">>>>}

SignaturePaths == {<<C("Contents"), C("_CodeSignature")>>,
                   <<C("Contents"), C("_CodeSignature"), C("CodeResources")>>}

\* C1: after a call that returns the record, the bundle at the destination
\* holds exactly the entries that call wrote (those of its strategy, and the
\* signature when its codesign run succeeded), each with the contents that
\* call gave it; nothing of what lay there before is left.
C1_FreshBundle ==
  Returns =>
    LET a == call.args
        d == frame.dest
        signedNow == \E i \in 1..Len(procs) : procs[i].tool = "codesign" /\ procs[i].outcome = "ok"
    IN  /\ Under(fs, d) = IF a.terminal THEN TerminalPaths(a.name)
                          ELSE GuiPaths(a.name) \cup (IF signedNow THEN SignaturePaths ELSE {})
        /\ fs[info_plist(d)].data.doc = IF a.terminal THEN "info" ELSE "info_automator"
        /\ a.terminal => fs[ascript_name(result.scut, d)].data.do_script
                             = <<"\"">> \o cmd_escaped(frame.cmd) \o <<"\"">>
        /\ ~a.terminal => fs[workflow_path(d)].data.COMMAND_STRING = frame.cmd

\* A Terminal rebuild over a GUI bundle of another command.
C1_Witness ==
  /\ Returns
  /\ call.args.terminal
  /\ <<C("Contents"), C("Resources"), <<"document", ".wflow">>>> \in frame.before
  /\ <<C("Contents"), C("_CodeSignature")>> \in frame.before
  /\ call.args.script = <<"/", "s", " ", "-", "v">>

\* C2: a GUI build on a host without any automation stub fails with the
\* missing-stub error, leaves no executable and no icon in the bundle, and
\* runs no external process.
C2_MissingStub ==
  (Called /\ call.args.desktop /\ ~call.args.terminal /\ ~stub_found(fs)) =>
     /\ result.ret = "raise"
     /\ result.exc = MissingStub
     /\ ~exists(fs, stub_dest(frame.dest))
     /\ Under(fs, MacOS(frame.dest)) \subseteq {<<>>}
     /\ procs = <<>>

\* C2 where the skeleton step went through (the destination was no regular
\* file): the build fails with the missing-stub error, the bundle has no
\* executable and no icon, and no external process ran.
C2_MissingStubAfterSkeleton ==
  (Called /\ call.args.desktop /\ ~call.args.terminal /\ ~stub_found(fs)
     /\ frame.skeleton.err = "ok") =>
     /\ result.ret = "raise"
     /\ result.exc = MissingStub
     /\ Under(fs, frame.dest)
          = Skeleton4 \cup {<<C("Contents"), <<"Info", ".plist">>>>,
                            <<C("Contents"), C("Resources"), <<"document", ".wflow">>>>}
     /\ procs = <<>>

\* C6: a call with desktop=False changes nothing in the filesystem, runs no
\* external process and returns None.
C6_NoDesktopNoEffect ==
  [][(~call'.args.desktop) => (fs' = fs /\ procs' = <<>> /\ result'.ret = "None")]_vars

C6_Witness ==
  /\ result.ret = "None"
  /\ ~call.args.desktop
  /\ ~exists(fs, get_desktop \o <<C("F")>>)
  /\ call.args.folder = <<"F">>

\* C8: after a Terminal build that returns the record, the launcher
\* Contents/MacOS/<name> exists with mode rwxr-xr-x (0o755).
C8_LauncherExecutable ==
  (Returns /\ call.args.terminal) =>
     /\ exists(fs, ascript_name(result.scut, frame.dest))
     /\ fs[ascript_name(result.scut, frame.dest)].mode = 493

\* A Terminal build under umask 0o077 over an old tree whose launcher was not
\* executable.
C8_Witness ==
  /\ Returns
  /\ call.args.terminal
  /\ call.env.umask = 63
  /\ <<C("Contents"), C("MacOS"), C("A")>> \in frame.before
  /\ <<C("junk")>> \in frame.before

\* C10: whatever lay at the destination (a directory tree or a regular
\* file), the skeleton step removes it and leaves exactly the four
\* directories there.
C10_SkeletonReplaces ==
  (Called /\ call.args.desktop) =>
     /\ frame.skeleton.err = "ok"
     /\ frame.skeleton.paths = Skeleton4

\* C10 for a destination that is absent or a directory tree.
C10_SkeletonReplacesTree ==
  (Called /\ call.args.desktop /\ frame.skeleton.err # "NotADirectoryError") =>
     /\ frame.skeleton.err = "ok"
     /\ frame.skeleton.paths = Skeleton4

\* C7: once the strategy's artifacts are written, whatever the outcomes of the
\* two external tools, the call returns the record; xattr is run, then, for
\* the GUI strategy only, codesign, also after a failure of xattr.
C7_BestEffortPost ==
  (Called /\ frame.built) =>
     /\ Returns
     /\ Len(procs) = IF call.args.terminal THEN 1 ELSE 2
     /\ procs[1] = Ran("xattr", frame.dest, call.env.xattr)
     /\ ~call.args.terminal => procs[2] = Ran("codesign", frame.dest, call.env.codesign)

\* A GUI build whose xattr run raised and whose codesign run exited non-zero.
C7_Witness ==
  /\ Returns
  /\ ~call.args.terminal
  /\ call.env.xattr = "raise"
  /\ call.env.codesign = "nonzero"
  /\ Len(procs) = 2

\* C3: the command is `S A` when noexe is set or when the resolved executable
\* is the resolved script, else `E S A` with E the resolved executable; the
\* parts are joined by single spaces and nothing is escaped.
C3_CommandAssembly ==
  (Called /\ call.args.desktop) =>
    LET a    == call.args
        scut == shortcut(a)
        S    == scut.full_script
        A    == scut.arguments
        E    == resolve(IF a.executable = None THEN get_pyexe ELSE a.executable)
    IN  frame.cmd = IF a.noexe \/ E = resolve(S)
                    THEN S \o <<" ">> \o A
                    ELSE E \o <<" ">> \o S \o <<" ">> \o A

\* The script is the link /l to the default executable /p: the executable is dropped.
C3_Witness ==
  /\ Called
  /\ ~call.args.noexe
  /\ call.args.executable = None
  /\ call.args.script = <<"/", "l", " ", "a", " ", "b">>
  /\ frame.cmd = <<"/", "l", " ", "a", " ", "b">>

\* C5: the literal written into the launcher for a command that holds a
\* double quote reads back as that command, and its final quote is the one
\* that ends it.
C5_QuotingRoundTrip ==
  (Returns /\ call.args.terminal /\ Contains(frame.cmd, "\"")) =>
    LET lit == parse_literal(fs[ascript_name(result.scut, frame.dest)].data.do_script)
    IN  /\ lit.closed
        /\ lit.rest = <<>>
        /\ lit.value = frame.cmd

\* C5 for the commands that hold no backslash.
C5_QuotingRoundTripNoBackslash ==
  (Returns /\ call.args.terminal /\ Contains(frame.cmd, "\"") /\ ~Contains(frame.cmd, "\\")) =>
    LET lit == parse_literal(fs[ascript_name(result.scut, frame.dest)].data.do_script)
    IN  /\ lit.closed
        /\ lit.rest = <<>>
        /\ lit.value = frame.cmd

\* The GUI bundles of the filesystem: name, command and identity of each.
GuiBundles ==
  {[dest |-> parent(parent(p)),
    name |-> fs[p].data.CFBundleName,
    id   |-> fs[p].data.CFBundleIdentifier,
    cmd  |-> fs[workflow_path(parent(parent(p)))].data.COMMAND_STRING] :
     p \in {q \in DOMAIN fs : /\ fs[q].kind = "file"
                              /\ fs[q].data.doc = "info_automator"
                              /\ exists(fs, workflow_path(parent(parent(q))))}}

\* C4: two GUI bundles of one name have the same identity when their commands
\* are the same, and different identities when their commands differ.
C4_IdentityInjective ==
  \A b1, b2 \in GuiBundles :
    b1.name = b2.name => (b1.id = b2.id <=> b1.cmd = b2.cmd)

\* C4, amended: two GUI bundles of one name have the same identity exactly
\* when the first eight hex digits of the MD5 digests of their commands are
\* the same; so the same command gives the same identity.
C4_IdentityFollowsDigest ==
  \A b1, b2 \in GuiBundles :
    b1.name = b2.name =>
      /\ b1.id = b2.id <=> md5_hexdigest8(b1.cmd) = md5_hexdigest8(b2.cmd)
      /\ b1.cmd = b2.cmd => b1.id = b2.id

\* Two builds of one name: one pair with the same command and identity is
\* there together with a bundle of another command and another identity.
C4_Witness ==
  \E b1, b2 \in GuiBundles :
    /\ b1.dest # b2.dest
    /\ b1.name = b2.name
    /\ b1.cmd # b2.cmd
    /\ b1.id # b2.id
    /\ call.args.script = <<"/", "s", " ", "-", "x", " ", "1">>

\* Two builds of one name with the same command, hence the same identity.
C4_SameCommand ==
  \E b1, b2 \in GuiBundles :
    b1.dest # b2.dest /\ b1.name = b2.name /\ b1.cmd = b2.cmd /\ b1.id = b2.id

\* The bundle of build p is complete: it holds what p's strategy writes.
Complete(p) ==
  Under(fs, Dest(p)) \in
    (IF th[p].args.terminal THEN {TerminalPaths(th[p].args.name)}
     ELSE {GuiPaths(th[p].args.name), GuiPaths(th[p].args.name) \cup SignaturePaths})

Finished == \A p \in Procs : pc[p] \in {"done", "failed"}

\* C9: two builds at once whose destinations differ both return, and each
\* leaves its own complete bundle.
C9_OnlySameDestinationContends ==
  (Finished /\ Dest(1) # Dest(2)) => \A p \in Procs : pc[p] = "done" /\ Complete(p)

\* C9 for two builds whose Desktop folder exists when they start.
C9_DistinctDestinationsExistingFolder ==
  (Finished /\ Dest(1) # Dest(2) /\ th[1].args.folder = None /\ th[2].args.folder = None)
    => \A p \in Procs : pc[p] = "done" /\ Complete(p)

====
